---- MODULE Spec2Model ----
(***************************************************************************)
(* A model of the two scripts of jupyterhub-scripts:                       *)
(*   images/scaler/src/main.py  - the polling image scaler (orchestrator   *)
(*       loop, batch scheduler, per-item pipeline, retry decorator);       *)
(*   images/mover/src/main.py   - the one-shot tag-driven image mover.     *)
(***************************************************************************)
EXTENDS Integers, Sequences, FiniteSets, TLC

(***************************************************************************)
(* Bounds of the model.                                                    *)
(***************************************************************************)
\* number of distinct raw files that may sit in RAW_REMOTE_DIR
MaxItems == 3
\* longest sequence of outcomes scripted for a wrapped method
MaxAttempts == 3
\* mover: files listed in UNSORTED_REMOTE_DIR, and tags of the instance
MaxFiles == 2
MaxTags == 2
\* longest tag display name given to the destination computation
MaxNameLen == 4
\* longest directory listing given to the scan of get_images_list
MaxListing == 2
\* scaler/src/main.py:75 sets THREADS_LIMIT = 10; the model scales the
\* ceiling down so that several batches fit in MaxItems items.
THREADS_LIMIT == 2
Items == 1..MaxItems

\* What one invocation of a remote-store method may do: return, or raise one
\* of the two connection exceptions of webdav3, or raise anything else.
Outcomes == {"ok", "NoConnection", "ConnectionException", "Other"}
\* The same with two different exceptions that are not connection errors.
ScriptOutcomes ==
    {"ok", "NoConnection", "ConnectionException", "ResponseErrorCode", "OSError"}

VARIABLES
    \* ---- scaler: remote store and local scratch directories
    \* (UNSORTED_REMOTE_DIR is only ever written, under names that are not
    \* reused: what a task has uploaded is kept in its field `uploaded`)
    rawRemote,       \* files present in RAW_REMOTE_DIR
    workdir,         \* input files in WORKDIR of the running tasks
    outdir,          \* names of the files of OUTPUT_DIR that a running task
                     \* holds (a name no task holds is never drawn again)
    \* ---- scaler: the main thread
    mpc,             \* position of the main thread in the while-True loop
    objects,         \* result of get_images_list for this cycle
    pos,             \* index in objects of the item of the for loop
    thread_poll,     \* the list thread_poll: indices into threads
    jn,              \* index in thread_poll of the thread being joined
    \* ---- scaler: the worker threads
    threads,         \* every thread object alive or created in this cycle
    started,         \* the items for which the cycle has started a thread, in order
    \* ---- one call of a function decorated with webdav_exception_handler
    r_script,        \* what the method does at its 1st, 2nd, ... invocation
    r_pc,            \* "call", "sleeping", "returned" or "raised"
    r_calls,         \* invocations of the method so far
    r_sleeps,        \* time.sleep(180) calls completed or under way
    r_result,        \* what the wrapper returned or raised
    \* ---- mover: the Nextcloud store
    location,        \* file id -> path of the file
    fileTags,        \* file id -> tag ids assigned to it, as get_tags lists them
    \* ---- mover: the run
    m_pc,            \* position of the script
    m_nodes,         \* nodes, the result of get_images_list
    m_k,             \* index in nodes of the node of the for loop
    m_tags,          \* tags, the result of get_image_tags for that node
    m_target,        \* target_path of move_image
    m_log,           \* the move and unassign_tag calls issued, with their end
    m_exc,           \* the exception that ended the script, "none" if none
    \* ---- mover: the destination of move_image, computed on its own
    d_name,          \* tags[0].display_name
    d_sentinel,      \* PARENT_TAG_VALUE
    d_path,          \* node.user_path
    d_target,        \* target_path
    d_pc,            \* "input" or "computed"
    \* ---- scaler: the scan of get_images_list, run on its own
    all_files,       \* the result of webdav_client.list(raw, get_info=True)
    l_i,             \* index in all_files of the entry of the for loop
    files_for_processing,  \* the list built by the loop
    l_printed,       \* number of "Error processing file entry" lines
    l_pc             \* "scan", "returned" or "raised"

scalerVars == <<rawRemote, workdir, outdir,
                mpc, objects, pos, thread_poll, jn, threads, started>>
retryVars == <<r_script, r_pc, r_calls, r_sleeps, r_result>>

moverVars == <<location, fileTags, m_pc, m_nodes, m_k, m_tags, m_target, m_log,
              m_exc>>
destVars == <<d_name, d_sentinel, d_path, d_target, d_pc>>
listVars == <<all_files, l_i, files_for_processing, l_printed, l_pc>>

\* what the scaler's steps leave alone
nonScalerVars == <<retryVars, moverVars, destVars, listVars>>

vars == <<scalerVars, retryVars, moverVars, destVars, listVars>>

(***************************************************************************)
(* Each specification below runs one part of the repository; the variables *)
(* of the other parts then rest at these values.                           *)
(***************************************************************************)
ScalerIdle ==
    /\ rawRemote = {}
    /\ workdir = {}
    /\ outdir = {}
    /\ mpc = "idle"
    /\ objects = <<>>
    /\ pos = 1
    /\ thread_poll = <<>>
    /\ jn = 1
    /\ threads = <<>>
    /\ started = <<>>

RetryIdle ==
    /\ r_script = <<>>
    /\ r_pc = "idle"
    /\ r_calls = 0
    /\ r_sleeps = 0
    /\ r_result = "none"

MoverIdle ==
    /\ location = <<>>
    /\ fileTags = <<>>
    /\ m_pc = "idle"
    /\ m_nodes = <<>>
    /\ m_k = 1
    /\ m_tags = <<>>
    /\ m_target = <<>>
    /\ m_log = <<>>
    /\ m_exc = "none"

DestIdle ==
    /\ d_name = <<>>
    /\ d_sentinel = <<>>
    /\ d_path = <<>>
    /\ d_target = <<>>
    /\ d_pc = "idle"

ListIdle ==
    /\ all_files = <<>>
    /\ l_i = 1
    /\ files_for_processing = <<>>
    /\ l_printed = 0
    /\ l_pc = "idle"

(***************************************************************************)
(* webdav_exception_handler: the decorator's except clause and loop.       *)
(***************************************************************************)
\* (mutants of the except clause: one exception class only; a bare except)
Caught_NoConnectionOnly(e) == e = "NoConnection"
Caught_BareExcept(e) == e # "ok"

\* except (NoConnection, ConnectionException)
Caught(e) == e \in {"NoConnection", "ConnectionException"}

\* One turn of `while True: try: return method(...) except ...: sleep`:
\* where the wrapper stands after the method's invocation ended with e.
WrapperNext(e) ==
    IF e = "ok" THEN "returned"
    ELSE IF Caught(e) THEN "sleeping"
    ELSE "raised"

(***************************************************************************)
(* Helpers.                                                                *)
(***************************************************************************)
\* the sequences over S of length at most n
RECURSIVE SeqsUpTo(_, _)
SeqsUpTo(S, n) ==
    IF n = 0 THEN {<<>>}
    ELSE LET shorter == SeqsUpTo(S, n - 1)
         IN  shorter \cup {Append(q, x) : q \in shorter, x \in S}

RECURSIVE SortedSeq(_)
SortedSeq(S) ==
    IF S = {} THEN <<>>
    ELSE LET m == CHOOSE x \in S : \A y \in S : x <= y
         IN  <<m>> \o SortedSeq(S \ {m})

\* get_images_list: the paths of the listing, in listing order
GetImagesList(remote) == SortedSeq(remote)

ThreadIds == 1..Len(threads)

Terminated(t) == threads[t].pc \in {"done", "failed"}
Running(t) == ~Terminated(t)

\* threading.Thread(target=multi_threading_run, args=(item,)) before start()
NewThread(item, idx) ==
    [item |-> item, idx |-> idx, pc |-> "download", w |-> "call",
     out |-> 0, wrote |-> FALSE, reported |-> FALSE,
     uploaded |-> FALSE, delIssued |-> FALSE]

\* The thread objects that remain once thread_poll has been reset: a
\* terminated thread that nothing references is gone, a running one stays.
Alive(ths) == SelectSeq(ths, LAMBDA r : r.pc \notin {"done", "failed"})

\* (mutant: the comparison off by one)
AtCapacity_OffByOne == Len(thread_poll) > THREADS_LIMIT

\* len(thread_poll) >= THREADS_LIMIT
AtCapacity == Len(thread_poll) >= THREADS_LIMIT

\* (mutant: join returns only for a thread that ended normally)
JoinReturns_DoneOnly(t) == threads[t].pc = "done"

\* thread.join() returns once the thread has terminated
JoinReturns(t) == Terminated(t)

(***************************************************************************)
(* Scaler: the main thread (lines 204-224).                                *)
(***************************************************************************)
mainVars == <<mpc, objects, pos, thread_poll, jn, started>>
storeVars == <<rawRemote, workdir, outdir>>

\* thread_poll = []; objects = get_images_list(raw=RAW_REMOTE_DIR), one
\* invocation through the decorator, then `if objects:`.
Poll(e) ==
    /\ mpc = "poll"
    /\ CASE WrapperNext(e) = "returned" ->
              /\ objects' = GetImagesList(rawRemote)
              /\ thread_poll' = <<>>
              /\ pos' = 1
              /\ jn' = 1
              \* thread objects of the previous cycle that have terminated
              \* are unreachable from here on
              /\ threads' = Alive(threads)
              /\ started' = <<>>
              /\ mpc' = IF objects' # <<>> THEN "for" ELSE "sleep"
         [] WrapperNext(e) = "sleeping" ->
              /\ mpc' = "poll_wait"
              /\ UNCHANGED <<objects, thread_poll, pos, jn, threads, started>>
         [] OTHER ->
              /\ mpc' = "crashed"
              /\ UNCHANGED <<objects, thread_poll, pos, jn, threads, started>>
    /\ UNCHANGED <<storeVars, nonScalerVars>>

\* time.sleep(180) of the decorator around get_images_list
PollBackoff ==
    /\ mpc = "poll_wait"
    /\ mpc' = "poll"
    /\ UNCHANGED <<objects, pos, thread_poll, jn, threads, started>>
    /\ UNCHANGED <<storeVars, nonScalerVars>>

\* `for item in objects:` exhausted: go to the final joins (line 218)
ForEnd ==
    /\ mpc = "for"
    /\ pos > Len(objects)
    /\ mpc' = "join_final"
    /\ jn' = 1
    /\ UNCHANGED <<objects, pos, thread_poll, threads, started>>
    /\ UNCHANGED <<storeVars, nonScalerVars>>

\* `if len(thread_poll) >= THREADS_LIMIT:` taken (lines 210-211)
LimitReached ==
    /\ mpc = "for"
    /\ pos <= Len(objects)
    /\ AtCapacity
    /\ mpc' = "join_batch"
    /\ jn' = 1
    /\ UNCHANGED <<objects, pos, thread_poll, threads, started>>
    /\ UNCHANGED <<storeVars, nonScalerVars>>

\* `if len(thread_poll) >= THREADS_LIMIT:` not taken
BelowLimit ==
    /\ mpc = "for"
    /\ pos <= Len(objects)
    /\ ~AtCapacity
    /\ mpc' = "start"
    /\ UNCHANGED <<objects, pos, thread_poll, jn, threads, started>>
    /\ UNCHANGED <<storeVars, nonScalerVars>>

\* (mutant: the join of a batch does not wait for the thread)
JoinBatchStep_NoWait ==
    /\ mpc = "join_batch"
    /\ jn <= Len(thread_poll)
    /\ jn' = jn + 1
    /\ UNCHANGED <<mpc, objects, pos, thread_poll, threads, started>>
    /\ UNCHANGED <<storeVars, nonScalerVars>>

\* one thread.join() of `for thread in thread_poll:` (lines 212-213)
JoinBatchStep ==
    /\ mpc = "join_batch"
    /\ jn <= Len(thread_poll)
    /\ JoinReturns(thread_poll[jn])
    /\ jn' = jn + 1
    /\ UNCHANGED <<mpc, objects, pos, thread_poll, threads, started>>
    /\ UNCHANGED <<storeVars, nonScalerVars>>

\* (mutant: the item that met the limit is passed over after the joins)
BatchCleared_SkipsItem ==
    /\ mpc = "join_batch"
    /\ jn > Len(thread_poll)
    /\ thread_poll' = <<>>
    /\ pos' = pos + 1
    /\ mpc' = "for"
    /\ UNCHANGED <<objects, jn, threads, started>>
    /\ UNCHANGED <<storeVars, nonScalerVars>>

\* thread_poll = [] (line 214)
BatchCleared ==
    /\ mpc = "join_batch"
    /\ jn > Len(thread_poll)
    /\ thread_poll' = <<>>
    /\ mpc' = "start"
    /\ UNCHANGED <<objects, pos, jn, threads, started>>
    /\ UNCHANGED <<storeVars, nonScalerVars>>

\* lines 215-217: create the thread, append it, start it; next item.
\* The terminated threads that thread_poll no longer names are dropped here.
StartThread ==
    /\ mpc = "start"
    /\ threads' = Append(IF thread_poll = <<>> THEN Alive(threads) ELSE threads,
                         NewThread(objects[pos], pos))
    /\ thread_poll' = Append(thread_poll, Len(threads'))
    /\ started' = Append(started, objects[pos])
    /\ pos' = pos + 1
    /\ mpc' = "for"
    /\ UNCHANGED <<objects, jn>>
    /\ UNCHANGED <<storeVars, nonScalerVars>>

\* (mutant: the joins after the for loop do not wait for the thread)
JoinFinalStep_NoWait ==
    /\ mpc = "join_final"
    /\ jn <= Len(thread_poll)
    /\ jn' = jn + 1
    /\ UNCHANGED <<mpc, objects, pos, thread_poll, threads, started>>
    /\ UNCHANGED <<storeVars, nonScalerVars>>

\* one thread.join() of the loop after the for (lines 218-219)
JoinFinalStep ==
    /\ mpc = "join_final"
    /\ jn <= Len(thread_poll)
    /\ JoinReturns(thread_poll[jn])
    /\ jn' = jn + 1
    /\ UNCHANGED <<mpc, objects, pos, thread_poll, threads, started>>
    /\ UNCHANGED <<storeVars, nonScalerVars>>

\* (mutant: the cycle ends without the joins of lines 218-219)
CycleDone_NoJoin ==
    /\ mpc = "join_final"
    /\ mpc' = "sleep"
    /\ UNCHANGED <<objects, pos, thread_poll, jn, threads, started>>
    /\ UNCHANGED <<storeVars, nonScalerVars>>

\* "All images have been processed", "Sleeping..."
CycleDone ==
    /\ mpc = "join_final"
    /\ jn > Len(thread_poll)
    /\ mpc' = "sleep"
    /\ UNCHANGED <<objects, pos, thread_poll, jn, threads, started>>
    /\ UNCHANGED <<storeVars, nonScalerVars>>

\* time.sleep(args.frequency) returns; the while loop starts over
Sleep ==
    /\ mpc = "sleep"
    /\ mpc' = "poll"
    /\ UNCHANGED <<objects, pos, thread_poll, jn, threads, started>>
    /\ UNCHANGED <<storeVars, nonScalerVars>>

(***************************************************************************)
(* Scaler: one worker thread, multi_threading_run (lines 187-198).         *)
(***************************************************************************)
\* A thread that an uncaught exception has ended: its frame, and with it
\* what it knew of its output file, is gone.
Raised(th) ==
    [th EXCEPT !.pc = "failed", !.out = 0, !.wrote = FALSE, !.reported = FALSE]

\* The thread ends with an uncaught exception.
Fail(t) == [threads EXCEPT ![t] = Raised(@)]

\* WORKDIR as tracked: the input files of the tasks that are running.  A
\* file that a terminated task left behind is read by nobody: the next task
\* of that item downloads it anew before it reads it.
Kept(ths, wd) ==
    {f \in wd : \E u \in 1..Len(ths) :
                    ths[u].item = f /\ ths[u].pc \notin {"done", "failed"}}

\* The names other running tasks hold.
HeldByOthers(t) ==
    {threads[u].out : u \in {v \in 1..Len(threads) : v # t /\ threads[v].out # 0}}

\* f'jh_rescaler_{datetime.now()...}_{randint(1, 1000)}.png': a name nobody
\* holds (written as the item's own number), or the name of a task that drew
\* the same suffix within the same second.
NameChoices(t) == {threads[t].item} \cup HeldByOthers(t)

\* OUTPUT_DIR as tracked once task t lets go of its name.
Release(t, od) ==
    IF threads[t].out \in HeldByOthers(t) THEN od ELSE od \ {threads[t].out}

\* After an invocation of the wrapped step `step` ended with e: go on with
\* `next`, sleep in the decorator, or die of the propagated exception.
AfterCall(t, e, next, ths) ==
    CASE WrapperNext(e) = "returned" -> [ths EXCEPT ![t].pc = next]
      [] WrapperNext(e) = "sleeping" -> [ths EXCEPT ![t].w = "sleeping"]
      [] OTHER -> [ths EXCEPT ![t] = Raised(@)]

\* download_image (lines 115-128), one invocation through the decorator.
\* download_sync of a path that is not on the server raises a
\* non-connection exception.
Download(t, o) ==
    LET th == threads[t]
        e  == IF o = "ok" /\ th.item \notin rawRemote THEN "Other" ELSE o
    IN  /\ th.pc = "download" /\ th.w = "call"
        /\ threads' = AfterCall(t, e, "scale", threads)
        /\ workdir' = Kept(threads', IF e = "ok" THEN workdir \cup {th.item}
                                       ELSE workdir)
        /\ UNCHANGED <<rawRemote, outdir>>
        /\ UNCHANGED <<mainVars, nonScalerVars>>

\* (mutant: the decorator gives up after its sleep and raises)
Backoff_GiveUp(t) ==
    /\ threads[t].w = "sleeping"
    /\ threads' = [threads EXCEPT ![t] = [Raised(@) EXCEPT !.w = "call"]]
    /\ outdir' = Release(t, outdir)
    /\ workdir' = Kept(threads', workdir)
    /\ UNCHANGED rawRemote
    /\ UNCHANGED <<mainVars, nonScalerVars>>

\* time.sleep(180) of the decorator, then the loop invokes the method again
Backoff(t) ==
    /\ threads[t].w = "sleeping"
    /\ threads' = [threads EXCEPT ![t].w = "call"]
    /\ UNCHANGED <<storeVars, mainVars, nonScalerVars>>

\* increase_resolution, lines 168-177: draw the output name, read the input
\* (an unreadable or missing input makes image None and image.shape raise),
\* write the output (imwrite may write nothing).
Scale(t, n, readable, wr) ==
    LET th == threads[t]
    IN  /\ th.pc = "scale"
        /\ n \in NameChoices(t)
        /\ IF readable /\ th.item \in workdir
             THEN /\ threads' = [threads EXCEPT ![t].pc = "check",
                                                ![t].out = n,
                                                ![t].wrote = wr]
                  /\ outdir' = IF wr THEN outdir \cup {n} ELSE outdir
             ELSE /\ threads' = Fail(t)
                  /\ UNCHANGED outdir
        /\ workdir' = Kept(threads', workdir)
        /\ UNCHANGED rawRemote
        /\ UNCHANGED <<mainVars, nonScalerVars>>

\* os.path.exists(output_file)
OutputExists(n) == n \in outdir

\* increase_resolution, lines 179-184: remove the input when the output
\* file exists, print the error otherwise; return new_file_name either way.
Check(t) ==
    LET th == threads[t]
    IN  /\ th.pc = "check"
        /\ IF OutputExists(th.out)
             THEN IF th.item \in workdir
                    THEN /\ workdir' = workdir \ {th.item}
                         /\ threads' = [threads EXCEPT ![t].pc = "upload"]
                    ELSE /\ threads' = Fail(t)
                         /\ workdir' = Kept(threads', workdir)
             ELSE /\ threads' = [threads EXCEPT ![t].pc = "upload",
                                                ![t].reported = TRUE]
                  /\ UNCHANGED workdir
        /\ outdir' = IF threads'[t].pc = "failed" THEN Release(t, outdir)
                      ELSE outdir
        /\ UNCHANGED rawRemote
        /\ UNCHANGED <<mainVars, nonScalerVars>>

\* upload_image (lines 131-145), one invocation through the decorator:
\* upload_sync raises a non-connection exception when the local file is
\* missing; after the upload the local file is removed.
Upload(t, o) ==
    LET th == threads[t]
        e  == IF th.out \notin outdir THEN "Other" ELSE o
    IN  /\ th.pc = "upload" /\ th.w = "call"
        /\ threads' = AfterCall(t, e, "delete",
                         [threads EXCEPT ![t].uploaded = @ \/ e = "ok",
                                         ![t].out = IF e = "ok" THEN 0 ELSE @])
        /\ outdir' = IF e = "ok" THEN outdir \ {th.out}
                      ELSE IF threads'[t].pc = "failed" THEN Release(t, outdir)
                      ELSE outdir
        /\ workdir' = Kept(threads', workdir)
        /\ UNCHANGED rawRemote
        /\ UNCHANGED <<mainVars, nonScalerVars>>

\* delete_source_image (lines 148-157), one invocation through the
\* decorator; clean of a path that is not on the server raises a
\* non-connection exception.
Delete(t, o) ==
    LET th == threads[t]
        e  == IF o = "ok" /\ th.item \notin rawRemote THEN "Other" ELSE o
    IN  /\ th.pc = "delete" /\ th.w = "call"
        /\ threads' = AfterCall(t, e, "done",
                         [threads EXCEPT ![t].delIssued = TRUE])
        /\ rawRemote' = IF e = "ok" THEN rawRemote \ {th.item} ELSE rawRemote
        /\ workdir' = Kept(threads', workdir)
        /\ UNCHANGED outdir
        /\ UNCHANGED <<mainVars, nonScalerVars>>

(***************************************************************************)
(* Scaler: the specification.                                              *)
(***************************************************************************)
ScalerInit ==
    /\ rawRemote \in SUBSET Items
    /\ workdir = {}
    /\ outdir = {}
    /\ mpc = "poll"
    /\ objects = <<>>
    /\ pos = 1
    /\ thread_poll = <<>>
    /\ jn = 1
    /\ threads = <<>>
    /\ started = <<>>

MainNext ==
    \/ \E e \in Outcomes : Poll(e)
    \/ PollBackoff
    \/ ForEnd
    \/ LimitReached
    \/ BelowLimit
    \/ JoinBatchStep
    \/ BatchCleared
    \/ StartThread
    \/ JoinFinalStep
    \/ CycleDone
    \/ Sleep

ThreadNext ==
    \/ \E t \in ThreadIds, o \in Outcomes : Download(t, o)
    \/ \E t \in ThreadIds : Backoff(t)
    \/ \E t \in ThreadIds, n \in Items, readable \in BOOLEAN, wr \in BOOLEAN :
          Scale(t, n, readable, wr)
    \/ \E t \in ThreadIds : Check(t)
    \/ \E t \in ThreadIds, o \in Outcomes : Upload(t, o)
    \/ \E t \in ThreadIds, o \in Outcomes : Delete(t, o)

(***************************************************************************)
(* Mover: strings (sequences of characters) and the destination path of    *)
(* move_image (mover, lines 130-132).                                      *)
(***************************************************************************)
StartsWith(str, pre) ==
    Len(pre) <= Len(str) /\ SubSeq(str, 1, Len(pre)) = pre

\* str.replace(old, ''), old not empty: every occurrence of old, taken from
\* the left without overlap, is removed.
RECURSIVE Replace(_, _)
Replace(str, old) ==
    IF Len(str) < Len(old) THEN str
    ELSE IF StartsWith(str, old)
         THEN Replace(SubSeq(str, Len(old) + 1, Len(str)), old)
    ELSE <<Head(str)>> \o Replace(Tail(str), old)

\* str.split('/')[-1]: what follows the last '/', the whole string if none
RECURSIVE LastSegment(_)
LastSegment(str) ==
    IF \A k \in 1..Len(str) : str[k] # "/" THEN str
    ELSE LastSegment(Tail(str))

\* f"{IMAGES_ROOT_DIR}/{tag_name.replace(PARENT_TAG_VALUE + ':', '')}/
\*    {node.user_path.split('/')[-1]}"
TargetPath(root, sentinel, tag_name, user_path) ==
    root \o <<"/">> \o Replace(tag_name, sentinel \o <<":">>)
         \o <<"/">> \o LastSegment(user_path)

(***************************************************************************)
(* Mover: configuration (constants_secret) and the store at start.         *)
(***************************************************************************)
IMAGES_ROOT_DIR == <<"r">>
UNSORTED_REMOTE_DIR == <<"u">>
PARENT_TAG_VALUE == <<"a">>

Files == 1..MaxFiles
Tags == 1..MaxTags
Letters == <<"c", "d", "e", "f", "g", "h">>

\* display_name of tag id: "a:c", "a:d", ...
DisplayName(id) == PARENT_TAG_VALUE \o <<":", Letters[id]>>
\* user_path of file f at start: "u/c", "u/d", ...
StartPath(f) == UNSORTED_REMOTE_DIR \o <<"/", Letters[f]>>

\* The tag lists a file may carry: no tag twice.
TagLists ==
    {q \in SeqsUpTo(Tags, MaxTags) : \A a, b \in 1..Len(q) : a # b => q[a] # q[b]}

MoverInit ==
    /\ location = [f \in Files |-> StartPath(f)]
    /\ fileTags \in [Files -> TagLists]
    /\ m_pc = "list"
    /\ m_nodes = <<>>
    /\ m_k = 1
    /\ m_tags = <<>>
    /\ m_target = <<>>
    /\ m_log = <<>>
    /\ m_exc = "none"

(***************************************************************************)
(* Mover: the run (lines 141-157).  No call is decorated: an exception of  *)
(* any kind ends the script.                                               *)
(***************************************************************************)
\* nodes = get_images_list(): listdir(UNSORTED_REMOTE_DIR)
MoverList(e) ==
    /\ m_pc = "list"
    /\ IF e = "ok"
         THEN /\ m_nodes' = SortedSeq({f \in Files :
                     StartsWith(location[f], UNSORTED_REMOTE_DIR \o <<"/">>)})
              /\ m_pc' = "list_tags"
         ELSE /\ m_pc' = "crashed"
              /\ UNCHANGED m_nodes
    /\ m_exc' = IF e = "ok" THEN m_exc ELSE e
    /\ UNCHANGED <<location, fileTags, m_k, m_tags, m_target, m_log>>
    /\ UNCHANGED <<scalerVars, retryVars, destVars, listVars>>

\* all_tags = get_tags_list(), printed only
MoverListTags(e) ==
    /\ m_pc = "list_tags"
    /\ m_pc' = IF e = "ok" THEN "for" ELSE "crashed"
    /\ m_exc' = IF e = "ok" THEN m_exc ELSE e
    /\ UNCHANGED <<location, fileTags, m_nodes, m_k, m_tags, m_target, m_log>>
    /\ UNCHANGED <<scalerVars, retryVars, destVars, listVars>>

\* `for node in nodes:` exhausted: print("Done."), sys.exit(0)
MoverExit ==
    /\ m_pc = "for"
    /\ m_k > Len(m_nodes)
    /\ m_pc' = "done"
    /\ UNCHANGED <<location, fileTags, m_nodes, m_k, m_tags, m_target, m_log,
                   m_exc>>
    /\ UNCHANGED <<scalerVars, retryVars, destVars, listVars>>

\* (mutant: an entry is relocated only when it carries several tags)
HasTags_MoreThanOne(tags) == Len(tags) > 1

\* len(tags) > 0
HasTags(tags) == Len(tags) > 0

\* tags = get_image_tags(file_id=node); if len(tags) > 0: (lines 153-154)
MoverGetTags(e) ==
    /\ m_pc = "for"
    /\ m_k <= Len(m_nodes)
    /\ IF e = "ok"
         THEN /\ m_tags' = fileTags[m_nodes[m_k]]
              /\ IF HasTags(m_tags')
                   THEN m_pc' = "move_image" /\ UNCHANGED m_k
                   ELSE m_pc' = "for" /\ m_k' = m_k + 1
         ELSE /\ m_pc' = "crashed"
              /\ UNCHANGED <<m_tags, m_k>>
    /\ m_exc' = IF e = "ok" THEN m_exc ELSE e
    /\ UNCHANGED <<location, fileTags, m_nodes, m_target, m_log>>
    /\ UNCHANGED <<scalerVars, retryVars, destVars, listVars>>

\* tags[0]
FirstTag(tags) == tags[1]

\* (mutant: the last tag of the list is taken)
MoveImageTag_Last(tags) == tags[Len(tags)]

\* the tag move_image works with (lines 130-131)
MoveImageTag(tags) == FirstTag(tags)

\* (mutant: the move is left out, the tag is unassigned at once)
MoverComputeTarget_NoMove ==
    /\ m_pc = "move_image"
    /\ m_target' = TargetPath(IMAGES_ROOT_DIR, PARENT_TAG_VALUE,
                              DisplayName(MoveImageTag(m_tags)),
                              location[m_nodes[m_k]])
    /\ m_pc' = "unassign"
    /\ UNCHANGED <<location, fileTags, m_nodes, m_k, m_tags, m_log, m_exc>>
    /\ UNCHANGED <<scalerVars, retryVars, destVars, listVars>>

\* move_image, lines 130-133: tag_id, tag_name, target_path
MoverComputeTarget ==
    /\ m_pc = "move_image"
    /\ m_target' = TargetPath(IMAGES_ROOT_DIR, PARENT_TAG_VALUE,
                              DisplayName(MoveImageTag(m_tags)),
                              location[m_nodes[m_k]])
    /\ m_pc' = "move"
    /\ UNCHANGED <<location, fileTags, m_nodes, m_k, m_tags, m_log, m_exc>>
    /\ UNCHANGED <<scalerVars, retryVars, destVars, listVars>>

\* nextcloud_client.files.move(path_src=node, path_dest=target_path): the
\* store refuses a destination that is taken (no overwrite) or is the source.
MoverMove(o) ==
    LET f == m_nodes[m_k]
        e == IF o = "ok" /\ \E g \in Files : location[g] = m_target
             THEN "Other" ELSE o
    IN  /\ m_pc = "move"
        /\ m_log' = Append(m_log, [op |-> "move", file |-> f, src |-> location[f],
                                   tags |-> m_tags, arg |-> m_target, end |-> e])
        /\ IF e = "ok"
             THEN /\ location' = [location EXCEPT ![f] = m_target]
                  /\ m_pc' = "unassign"
             ELSE /\ m_pc' = "crashed"
                  /\ UNCHANGED location
        /\ m_exc' = IF e = "ok" THEN m_exc ELSE e
        /\ UNCHANGED <<fileTags, m_nodes, m_k, m_tags, m_target>>
        /\ UNCHANGED <<scalerVars, retryVars, destVars, listVars>>

\* (mutant: the identifier of the last tag of the list is unassigned)
MoverUnassign_LastTag(e) ==
    LET f  == m_nodes[m_k]
        id == m_tags[Len(m_tags)]
    IN  /\ m_pc = "unassign"
        /\ m_log' = Append(m_log, [op |-> "unassign", file |-> f, src |-> location[f],
                                   tags |-> m_tags, arg |-> id, end |-> e])
        /\ IF e = "ok"
             THEN /\ fileTags' = [fileTags EXCEPT ![f] =
                                     SelectSeq(@, LAMBDA x : x # id)]
                  /\ m_pc' = "for"
                  /\ m_k' = m_k + 1
             ELSE /\ m_pc' = "crashed"
                  /\ UNCHANGED <<fileTags, m_k>>
        /\ m_exc' = IF e = "ok" THEN m_exc ELSE e
        /\ UNCHANGED <<location, m_nodes, m_tags, m_target>>
        /\ UNCHANGED <<scalerVars, retryVars, destVars, listVars>>

\* (mutant: a failed unassign_tag is compensated, the file is moved back)
MoverUnassign_MoveBack(e) ==
    LET f  == m_nodes[m_k]
        id == MoveImageTag(m_tags)
    IN  /\ m_pc = "unassign"
        /\ m_log' = Append(m_log, [op |-> "unassign", file |-> f, src |-> location[f],
                                   tags |-> m_tags, arg |-> id, end |-> e])
        /\ IF e = "ok"
             THEN /\ fileTags' = [fileTags EXCEPT ![f] =
                                     SelectSeq(@, LAMBDA x : x # id)]
                  /\ m_pc' = "for"
                  /\ m_k' = m_k + 1
                  /\ UNCHANGED location
             ELSE /\ m_pc' = "crashed"
                  /\ location' = [location EXCEPT ![f] = StartPath(f)]
                  /\ UNCHANGED <<fileTags, m_k>>
        /\ m_exc' = IF e = "ok" THEN m_exc ELSE e
        /\ UNCHANGED <<m_nodes, m_tags, m_target>>
        /\ UNCHANGED <<scalerVars, retryVars, destVars, listVars>>

\* nextcloud_client.files.unassign_tag(file_id=node, tag_id=tag_id), then
\* the next node of the loop
MoverUnassign(e) ==
    LET f  == m_nodes[m_k]
        id == MoveImageTag(m_tags)
    IN  /\ m_pc = "unassign"
        /\ m_log' = Append(m_log, [op |-> "unassign", file |-> f, src |-> location[f],
                                   tags |-> m_tags, arg |-> id, end |-> e])
        /\ IF e = "ok"
             THEN /\ fileTags' = [fileTags EXCEPT ![f] =
                                     SelectSeq(@, LAMBDA x : x # id)]
                  /\ m_pc' = "for"
                  /\ m_k' = m_k + 1
             ELSE /\ m_pc' = "crashed"
                  /\ UNCHANGED <<fileTags, m_k>>
        /\ m_exc' = IF e = "ok" THEN m_exc ELSE e
        /\ UNCHANGED <<location, m_nodes, m_tags, m_target>>
        /\ UNCHANGED <<scalerVars, retryVars, destVars, listVars>>

MoverNext ==
    \/ \E e \in Outcomes : MoverList(e)
    \/ \E e \in Outcomes : MoverListTags(e)
    \/ MoverExit
    \/ \E e \in Outcomes : MoverGetTags(e)
    \/ MoverComputeTarget
    \/ \E e \in Outcomes : MoverMove(e)
    \/ \E e \in Outcomes : MoverUnassign(e)

MoverRunInit == MoverInit /\ ScalerIdle /\ RetryIdle /\ DestIdle /\ ListIdle

(***************************************************************************)
(* The destination computation of move_image on arbitrary inputs.          *)
(***************************************************************************)
NameChars == {"a", "c", ":"}
PathChars == {"u", "c", "/"}

DestInit ==
    /\ d_name \in SeqsUpTo(NameChars, MaxNameLen)
    /\ d_sentinel \in {<<"a">>, <<"c">>, <<"a", "c">>}
    /\ d_path \in SeqsUpTo(PathChars, 3)
    /\ d_target = <<>>
    /\ d_pc = "input"

\* line 132
DestCompute ==
    /\ d_pc = "input"
    /\ d_target' = TargetPath(IMAGES_ROOT_DIR, d_sentinel, d_name, d_path)
    /\ d_pc' = "computed"
    /\ UNCHANGED <<d_name, d_sentinel, d_path>>
    /\ UNCHANGED <<scalerVars, retryVars, moverVars, listVars>>

DestSpecInit == DestInit /\ ScalerIdle /\ RetryIdle /\ MoverIdle /\ ListIdle

DestSpec == DestSpecInit /\ [][DestCompute]_vars

(***************************************************************************)
(* Scaler: the scan of get_images_list (lines 102-112) on arbitrary        *)
(* listings.  An entry of the listing is a record: isDict says whether it  *)
(* is a dict at all, hasPath/hasIsdir whether the key is there, pathIsStr  *)
(* whether file['path'] is a string.                                       *)
(***************************************************************************)
RAW_NAMES_PREFIXES == <<<<"i">>, <<"p", "q">>>>

ListingPaths ==
    { <<"r", "/", "i", "x">>, <<"r", "/", "p", "q">>, <<"r", "/", "p">>,
      <<"r", "/", "x", "i">>, <<"i", "/", "x">>, <<"r", "/", "i", "/">>,
      <<"i">> }

Entry(d, hp, ps, pa, hi, isd) ==
    [isDict |-> d, hasPath |-> hp, pathIsStr |-> ps, path |-> pa,
     hasIsdir |-> hi, isdir |-> isd]

ListingEntries ==
    {Entry(TRUE, TRUE, TRUE, pa, TRUE, isd) : pa \in ListingPaths, isd \in BOOLEAN}
    \cup {Entry(TRUE, TRUE, TRUE, pa, FALSE, FALSE) : pa \in ListingPaths}
    \cup {Entry(TRUE, FALSE, FALSE, <<>>, TRUE, isd) : isd \in BOOLEAN}
    \cup {Entry(TRUE, TRUE, FALSE, <<>>, TRUE, FALSE),
          Entry(FALSE, FALSE, FALSE, <<>>, FALSE, FALSE)}

\* any(filename.startswith(prefix) for prefix in RAW_NAMES_PREFIXES)
NameCondition(filename) ==
    \E n \in 1..Len(RAW_NAMES_PREFIXES) : StartsWith(filename, RAW_NAMES_PREFIXES[n])

\* The body of the try (lines 106-109) on one entry: "append", "skip", or
\* the class of the exception it raises.
TryBody(file) ==
    IF ~file.isDict THEN "TypeError"
    ELSE IF ~file.hasPath THEN "KeyError"
    ELSE IF ~file.pathIsStr THEN "AttributeError"
    ELSE IF ~NameCondition(LastSegment(file.path)) THEN "skip"
    ELSE IF ~file.hasIsdir THEN "KeyError"
    ELSE IF file.isdir THEN "skip"
    ELSE "append"

\* (mutant: the except clause names KeyError only)
ScanCaught_KeyErrorOnly(x) == x = "KeyError"

\* except (KeyError, TypeError, AttributeError, IndexError, ValueError)
ScanCaught(x) ==
    x \in {"KeyError", "TypeError", "AttributeError", "IndexError", "ValueError"}

ListInit ==
    /\ all_files \in SeqsUpTo(ListingEntries, MaxListing)
    /\ l_i = 1
    /\ files_for_processing = <<>>
    /\ l_printed = 0
    /\ l_pc = "scan"

\* one turn of `for file in all_files:` (lines 104-111)
ScanEntry ==
    LET file == all_files[l_i]
        x    == TryBody(file)
    IN  /\ l_pc = "scan"
        /\ l_i <= Len(all_files)
        /\ CASE x = "append" ->
                  /\ files_for_processing' = Append(files_for_processing, file.path)
                  /\ l_i' = l_i + 1
                  /\ UNCHANGED <<l_printed, l_pc>>
             [] x = "skip" ->
                  /\ l_i' = l_i + 1
                  /\ UNCHANGED <<files_for_processing, l_printed, l_pc>>
             [] x \notin {"append", "skip"} /\ ScanCaught(x) ->
                  /\ l_printed' = l_printed + 1
                  /\ l_i' = l_i + 1
                  /\ UNCHANGED <<files_for_processing, l_pc>>
             [] OTHER ->
                  /\ l_pc' = "raised"
                  /\ UNCHANGED <<files_for_processing, l_printed, l_i>>
        /\ UNCHANGED all_files
        /\ UNCHANGED <<scalerVars, retryVars, moverVars, destVars>>

\* return files_for_processing (line 112)
ScanReturn ==
    /\ l_pc = "scan"
    /\ l_i > Len(all_files)
    /\ l_pc' = "returned"
    /\ UNCHANGED <<all_files, l_i, files_for_processing, l_printed>>
    /\ UNCHANGED <<scalerVars, retryVars, moverVars, destVars>>

ListNext == ScanEntry \/ ScanReturn

ListSpecInit == ListInit /\ ScalerIdle /\ RetryIdle /\ MoverIdle /\ DestIdle

ListSpec == ListSpecInit /\ [][ListNext]_vars

(***************************************************************************)
(* One call of a decorated function (lines 78-91), the method's behaviour  *)
(* at each invocation given by r_script.                                   *)
(***************************************************************************)
\* Scripts whose last invocation ends the loop (returns or raises something
\* the decorator does not catch); what follows the first such invocation is
\* what a further invocation would do.
Scripts ==
    {q \in SeqsUpTo(ScriptOutcomes, MaxAttempts) :
        Len(q) > 0 /\ ~Caught(q[Len(q)])}

RetryInit ==
    /\ r_script \in Scripts
    /\ r_pc = "call"
    /\ r_calls = 0
    /\ r_sleeps = 0
    /\ r_result = "none"

\* try: return method(*args, **kwargs) / except (...): the invocation
\* number r_calls + 1 returns its value, or raises into the except clause,
\* or raises through the wrapper.
WrapperInvoke ==
    LET k == r_calls + 1
        e == r_script[k]
    IN  /\ r_pc = "call"
        /\ k <= Len(r_script)
        /\ r_calls' = k
        /\ r_pc' = WrapperNext(e)
        /\ r_result' = CASE WrapperNext(e) = "returned" -> <<"value", k>>
                          [] WrapperNext(e) = "raised" -> <<"raise", e>>
                          [] OTHER -> r_result
        /\ r_sleeps' = IF WrapperNext(e) = "sleeping" THEN r_sleeps + 1
                        ELSE r_sleeps
        /\ UNCHANGED r_script
        /\ UNCHANGED <<scalerVars, moverVars, destVars, listVars>>

\* time.sleep(180) returns; `while True` goes round
WrapperSleepDone ==
    /\ r_pc = "sleeping"
    /\ r_pc' = "call"
    /\ UNCHANGED <<r_script, r_calls, r_sleeps, r_result>>
    /\ UNCHANGED <<scalerVars, moverVars, destVars, listVars>>

RetryNext == WrapperInvoke \/ WrapperSleepDone

\* The method's invocations and the sleep both end: the thread runs.
RetrySpecInit == RetryInit /\ ScalerIdle /\ MoverIdle /\ DestIdle /\ ListIdle

RetrySpec ==
    /\ RetrySpecInit
    /\ [][RetryNext]_vars
    /\ WF_vars(RetryNext)

(***************************************************************************)
(* The two scripts: a behaviour is a run of the scaler or a run of the     *)
(* mover.                                                                  *)
(***************************************************************************)
ScalerRunInit == ScalerInit /\ RetryIdle /\ MoverIdle /\ DestIdle /\ ListIdle

Init == ScalerRunInit \/ MoverRunInit

Next == MainNext \/ ThreadNext \/ MoverNext

Spec == Init /\ [][Next]_vars

(***************************************************************************)
(* The scaler under fair scheduling.  The threads and the main thread are  *)
(* scheduled by the interpreter: each keeps taking its steps (weak         *)
(* fairness).  The specification further assumes that the connection       *)
(* comes back: a wrapped call that is invoked again and again does not end *)
(* in a connection failure for ever (strong fairness of its other ends).   *)
(***************************************************************************)
\* A step of thread t.
ThreadStep(t) ==
    /\ t \in ThreadIds
    /\ \/ \E o \in Outcomes : Download(t, o)
       \/ Backoff(t)
       \/ \E n \in Items, readable \in BOOLEAN, wr \in BOOLEAN :
             Scale(t, n, readable, wr)
       \/ Check(t)
       \/ \E o \in Outcomes : Upload(t, o)
       \/ \E o \in Outcomes : Delete(t, o)

\* An invocation of a wrapped call of thread t that returns or raises.
ThreadCallEnds(t) ==
    /\ t \in ThreadIds
    /\ \E o \in {"ok", "Other"} :
          Download(t, o) \/ Upload(t, o) \/ Delete(t, o)

\* An invocation of get_images_list that returns or raises.
PollEnds == \E e \in {"ok", "Other"} : Poll(e)

Fairness ==
    /\ WF_vars(MainNext)
    /\ SF_vars(PollEnds)
    /\ \A t \in 1..THREADS_LIMIT :
          WF_vars(ThreadStep(t)) /\ SF_vars(ThreadCallEnds(t))

FairSpec == Init /\ [][Next]_vars /\ Fairness

(***************************************************************************)
(* Properties of the scheduler (scaler, lines 204-224).                    *)
(***************************************************************************)
RunningThreads == {t \in ThreadIds : Running(t)}

\* The batch of the item at position idx of the discovered sequence, the
\* sequence cut into consecutive batches of THREADS_LIMIT.
BatchOf(idx) == (idx - 1) \div THREADS_LIMIT

\* C1 - concurrency bound: in every reachable state the number of tasks that
\* have been started and have not terminated is at most THREADS_LIMIT.
C1_ConcurrencyBound == Cardinality(RunningThreads) <= THREADS_LIMIT

\* C1 witness: a full batch is running while items of the cycle are still
\* waiting to be started.
C1_Witness ==
    /\ Cardinality(RunningThreads) = THREADS_LIMIT
    /\ mpc = "join_batch"
    /\ pos <= Len(objects)

\* C2 - batch barrier: whenever a task is about to be started or has been
\* started, every task of an earlier batch of the cycle has terminated.
C2_BatchBarrier ==
    /\ \A s, t \in ThreadIds :
          BatchOf(threads[s].idx) < BatchOf(threads[t].idx) => Terminated(s)
    /\ mpc = "start" =>
          \A s \in ThreadIds :
              BatchOf(threads[s].idx) < BatchOf(pos) => Terminated(s)

\* C2 witness: the first task of a second batch is about to be started, the
\* tasks of the first batch being the threads just joined.
C2_Witness ==
    /\ mpc = "start"
    /\ BatchOf(pos) = 1
    /\ Cardinality({s \in ThreadIds : BatchOf(threads[s].idx) = 0}) = THREADS_LIMIT

\* C3 - cycle drain: while the loop sleeps or polls (get_images_list and
\* its backoff), every task started in the cycle has terminated.
C3_CycleDrain ==
    mpc \in {"sleep", "poll", "poll_wait"} => \A t \in ThreadIds : Terminated(t)

\* C3 witness: the loop sleeps after a cycle of more items than one batch
\* whose last batch was a partial one.
C3_Witness ==
    /\ mpc = "sleep"
    /\ Len(objects) > THREADS_LIMIT
    /\ Len(objects) % THREADS_LIMIT # 0
    /\ Len(thread_poll) = Len(objects) % THREADS_LIMIT
    /\ \E t \in ThreadIds : threads[t].idx = Len(objects)

(***************************************************************************)
(* Properties of the retry decorator (scaler, lines 78-91).                *)
(***************************************************************************)
\* A connectivity failure, as the remote store raises it.
ConnectivityFailure(e) == e \in {"NoConnection", "ConnectionException"}

\* The number N of leading connectivity failures of the script.
LeadingFailures ==
    Cardinality({k \in 1..Len(r_script) :
                    \A m \in 1..k : ConnectivityFailure(r_script[m])})

\* The method fails with a connectivity failure N times, then succeeds.
FailsThenSucceeds ==
    /\ LeadingFailures < Len(r_script)
    /\ r_script[LeadingFailures + 1] = "ok"

ReturnedAfterN ==
    /\ r_pc = "returned"
    /\ r_result = <<"value", LeadingFailures + 1>>
    /\ r_calls = LeadingFailures + 1
    /\ r_sleeps = LeadingFailures

\* C4 - retry liveness: when the method raises a connectivity failure on its
\* first N invocations and succeeds on invocation N+1, the wrapper never
\* raises, and it returns the value of invocation N+1 after exactly N sleeps
\* and N+1 invocations.
C4_RetryLiveness ==
    /\ [](FailsThenSucceeds => r_pc # "raised")
    /\ [](FailsThenSucceeds /\ r_pc = "returned" => ReturnedAfterN)
    /\ (FailsThenSucceeds ~> ReturnedAfterN)

\* C4 witness: a return after two failures of the two connection kinds.
C4_Witness ==
    /\ r_pc = "returned"
    /\ r_sleeps = 2
    /\ r_script[1] # r_script[2]

\* C5 - only connectivity failures are intercepted: once an invocation has
\* raised any other failure, the wrapper has raised that very failure, it
\* was the last invocation, and no sleep followed it.
C5_OtherFailuresPropagate ==
    \A k \in 1..r_calls :
        (r_script[k] # "ok" /\ ~ConnectivityFailure(r_script[k])) =>
            /\ r_pc = "raised"
            /\ r_result = <<"raise", r_script[k]>>
            /\ r_calls = k
            /\ r_sleeps = k - 1

\* C5 witness: the wrapper raised OSError at its second invocation, with a
\* further scripted invocation it never makes.
C5_Witness ==
    /\ r_pc = "raised"
    /\ r_calls = 2
    /\ r_result = <<"raise", "OSError">>
    /\ Len(r_script) > r_calls

(***************************************************************************)
(* Properties of the per-item pipelines.                                   *)
(***************************************************************************)
\* The transform step of task t has ended (increase_resolution returned).
TransformEnded(t) == threads[t].pc \in {"upload", "delete", "done"}

\* C6 - transform safety: if the transform step of a task has not produced
\* its output file, the local input file is still there after the step, the
\* step has reported the failure, and the task issues no remote delete.
C6_TransformSafety ==
    \A t \in ThreadIds :
        (TransformEnded(t) /\ ~threads[t].wrote) =>
            /\ threads[t].item \in workdir
            /\ threads[t].reported
            /\ threads[t].pc = "upload"
            /\ ~threads[t].delIssued

\* C7 - destructive step last: a task of the scaler has issued (or is about
\* to issue) the remote delete only if its upload returned successfully, and
\* the mover has issued an unassign_tag for a file only after a move of that
\* file that returned successfully.
C7_DestructiveStepLast ==
    /\ \A t \in ThreadIds :
          (threads[t].delIssued \/ threads[t].pc = "delete") => threads[t].uploaded
    /\ \A i \in 1..Len(m_log) :
          m_log[i].op = "unassign" =>
              \E k \in 1..(i - 1) :
                  /\ m_log[k].op = "move"
                  /\ m_log[k].file = m_log[i].file
                  /\ m_log[k].end = "ok"
    /\ m_pc = "unassign" =>
          /\ Len(m_log) > 0
          /\ m_log[Len(m_log)].op = "move"
          /\ m_log[Len(m_log)].file = m_nodes[m_k]
          /\ m_log[Len(m_log)].end = "ok"

\* C7 witness: a task that has uploaded its output has deleted its source
\* from the raw directory while a sibling whose upload failed has not.
C7_Witness ==
    \E t, u \in ThreadIds :
        /\ threads[t].pc = "done" /\ threads[t].delIssued
        /\ threads[t].item \notin rawRemote
        /\ threads[u].pc = "failed" /\ ~threads[u].uploaded
        /\ threads[u].item \in rawRemote

(***************************************************************************)
(* Properties of move_image.                                               *)
(***************************************************************************)
\* The string with its leading occurrence of pre, if it has one, removed.
StripLeading(str, pre) ==
    IF StartsWith(str, pre) THEN SubSeq(str, Len(pre) + 1, Len(str)) ELSE str

\* The base name of a path: what follows its last "/".
BaseNameOf(path) ==
    LET slashes == {k \in 1..Len(path) : path[k] = "/"}
    IN  IF slashes = {} THEN path
        ELSE SubSeq(path, (CHOOSE k \in slashes : \A m \in slashes : m <= k) + 1,
                    Len(path))

\* C8 - destination computation: for every display name, sentinel and source
\* path the destination is <ImagesRootDir>/<category>/<base name>, the
\* category being the display name with only its leading "<sentinel>:"
\* stripped.
C8_DestinationComputation ==
    d_pc = "computed" =>
        d_target = IMAGES_ROOT_DIR \o <<"/">>
                     \o StripLeading(d_name, d_sentinel \o <<":">>)
                     \o <<"/">> \o BaseNameOf(d_path)

\* The entries of the mover's log for file f.
LogOf(f) == SelectSeq(m_log, LAMBDA x : x.file = f)

\* C9 - first tag only: the destination of every move is the one computed
\* from the first tag read and from no other tag, every unassign names the
\* identifier of the first tag read, at most one unassign is issued for a
\* file, exactly one once the loop has passed a file carrying tags, and a
\* successful unassign leaves exactly the other tags assigned.
C9_FirstTagOnly ==
    /\ \A i \in 1..Len(m_log) :
          LET x == m_log[i]
          IN  /\ Len(x.tags) >= 1
              /\ x.op = "move" =>
                    x.arg = TargetPath(IMAGES_ROOT_DIR, PARENT_TAG_VALUE,
                                       DisplayName(x.tags[1]), StartPath(x.file))
              /\ x.op = "unassign" =>
                    /\ x.arg = x.tags[1]
                    /\ x.end = "ok" => fileTags[x.file] = Tail(x.tags)
                    /\ x.end # "ok" => fileTags[x.file] = x.tags
    /\ \A f \in Files :
          Len(SelectSeq(LogOf(f), LAMBDA x : x.op = "unassign")) <= 1
    /\ \A k \in 1..Len(m_nodes) :
          (k < m_k /\ fileTags[m_nodes[k]] # <<>>) =>
              Len(SelectSeq(LogOf(m_nodes[k]), LAMBDA x : x.op = "unassign")) = 1

\* C9 witness: a file that carried two tags has been relocated and carries
\* its second tag only.
C9_Witness ==
    \E i \in 1..Len(m_log) :
        /\ m_log[i].op = "unassign" /\ m_log[i].end = "ok"
        /\ Len(m_log[i].tags) = 2
        /\ fileTags[m_log[i].file] = <<m_log[i].tags[2]>>

\* C10 - post-condition of success: once the move and the unassign of a
\* file have both returned, the file no longer carries the identifier read
\* as its first tag, it is at the computed destination, and nothing is at
\* its original path.
C10_PostCondition ==
    \A i, k \in 1..Len(m_log) :
        ( /\ m_log[i].op = "move" /\ m_log[i].end = "ok"
          /\ m_log[k].op = "unassign" /\ m_log[k].end = "ok"
          /\ m_log[i].file = m_log[k].file ) =>
            LET f == m_log[i].file
            IN  /\ \A n \in 1..Len(fileTags[f]) : fileTags[f][n] # m_log[i].tags[1]
                /\ location[f] = m_log[i].arg
                /\ location[f] # StartPath(f)
                /\ \A g \in Files : location[g] # StartPath(f)

\* C10 witness: the run has ended with every listed file relocated.
C10_Witness ==
    /\ m_pc = "done"
    /\ Len(m_log) = 2 * MaxFiles
    /\ \A f \in Files : location[f] # StartPath(f)

(***************************************************************************)
(* Properties of the mover's loop (mover, lines 152-155).                  *)
(***************************************************************************)
\* The calls of kind op issued for file f.
Issued(f, op) == SelectSeq(LogOf(f), LAMBDA x : x.op = op)

\* The tags file f carried when the run began: only a successful
\* unassign_tag of the run changes them.
TagsAtStart(f) ==
    LET done == SelectSeq(Issued(f, "unassign"), LAMBDA x : x.end = "ok")
    IN  IF done # <<>> THEN done[1].tags ELSE fileTags[f]

\* C11 - tag filter and zero-tag no-op: a move or an unassign is issued
\* only for an entry whose tag list is not empty; for every entry the loop
\* has passed, a move and an unassign have been issued if and only if its
\* tag list was not empty; an entry with no tag keeps its path and its
\* (empty) tag set and no call is issued for it.
C11_TagFilter ==
    /\ \A i \in 1..Len(m_log) :
          /\ m_log[i].tags # <<>>
          /\ TagsAtStart(m_log[i].file) # <<>>
    /\ \A k \in 1..Len(m_nodes) :
          k < m_k =>
              ( (Issued(m_nodes[k], "move") # <<>> /\ Issued(m_nodes[k], "unassign") # <<>>)
                <=> TagsAtStart(m_nodes[k]) # <<>> )
    /\ \A f \in DOMAIN fileTags :
          TagsAtStart(f) = <<>> =>
              /\ location[f] = StartPath(f)
              /\ fileTags[f] = <<>>
              /\ LogOf(f) = <<>>

\* C11 witness: the run has ended; it has passed an entry without tags,
\* which is where it was, and has relocated an entry that carried a tag.
C11_Witness ==
    /\ m_pc = "done"
    /\ \E f, g \in Files :
          /\ TagsAtStart(f) = <<>> /\ location[f] = StartPath(f)
          /\ TagsAtStart(g) # <<>> /\ location[g] # StartPath(g)
          /\ Issued(g, "unassign") # <<>>

\* C12 - every remote call of the mover goes through the retry wrapper: a
\* connectivity failure of listdir, get_tags, move or unassign_tag is
\* waited out and the call made again; it never propagates and ends the run.
C12_MoverCallsRetried ==
    ~(m_pc = "crashed" /\ ConnectivityFailure(m_exc))

\* The script is relocating the entry m_nodes[m_k]: in get_image_tags, in
\* the move or in the unassign_tag.
Relocating ==
    /\ m_pc \in {"for", "move", "unassign"}
    /\ m_k <= Len(m_nodes)

\* C16 - failure isolation in the relocation pipeline: a failure of
\* get_image_tags, of the move or of the unassign_tag of one entry ends the
\* work on that entry only: it never ends the run while a later entry of
\* the listing carries a tag and is still to be relocated.
C16_MoverFailureIsolation ==
    [][(Relocating /\ m_pc' = "crashed") =>
          \A k \in (m_k + 1)..Len(m_nodes) : fileTags[m_nodes[k]] = <<>>]_vars

\* C17 - partial relocation: when the move of a file has succeeded and its
\* unassign_tag has failed, nothing is undone: the file is at the
\* destination, nothing is at its original path, it carries the tags it
\* had, the first one included, and the one move is the only move issued
\* for it in the run.
C17_PartialRelocation ==
    \A i, k \in 1..Len(m_log) :
        ( /\ m_log[i].op = "move" /\ m_log[i].end = "ok"
          /\ m_log[k].op = "unassign" /\ m_log[k].end # "ok"
          /\ m_log[i].file = m_log[k].file ) =>
            LET f == m_log[i].file
            IN  /\ location[f] = m_log[i].arg
                /\ \A g \in DOMAIN location : location[g] # StartPath(f)
                /\ fileTags[f] = m_log[k].tags
                /\ fileTags[f][1] = m_log[k].arg
                /\ Len(Issued(f, "move")) = 1

\* C17 witness: the run has ended on the failure of the unassign_tag of a
\* file whose move had succeeded.
C17_Witness ==
    /\ m_pc = "crashed"
    /\ Len(m_log) >= 2
    /\ m_log[Len(m_log)].op = "unassign" /\ m_log[Len(m_log)].end # "ok"
    /\ m_log[Len(m_log) - 1].op = "move" /\ m_log[Len(m_log) - 1].end = "ok"
    /\ m_log[Len(m_log) - 1].file = m_log[Len(m_log)].file

(***************************************************************************)
(* Properties of get_images_list.                                          *)
(***************************************************************************)
\* An entry with the fields the scan reads.
WellFormed(file) ==
    file.isDict /\ file.hasPath /\ file.pathIsStr /\ file.hasIsdir

\* A well-formed entry that is not a directory and whose file name starts
\* with one of the configured prefixes.
Matching(file) ==
    /\ WellFormed(file)
    /\ ~file.isdir
    /\ \E n \in 1..Len(RAW_NAMES_PREFIXES) :
          StartsWith(BaseNameOf(file.path), RAW_NAMES_PREFIXES[n])

\* The paths of the matching entries of a listing, in listing order.
MatchingPaths(listing) ==
    LET sel == SelectSeq(listing, Matching)
    IN  [n \in 1..Len(sel) |-> sel[n].path]

\* C13 - prefix filter: the scan never aborts, whatever the entries; after
\* each entry the list built so far holds, in listing order, exactly the
\* paths of the matching entries scanned so far, and the list returned
\* holds exactly those of the whole listing.
C13_PrefixFilter ==
    /\ l_pc # "raised"
    /\ l_pc = "scan" =>
          files_for_processing = MatchingPaths(SubSeq(all_files, 1, l_i - 1))
    /\ l_pc = "returned" => files_for_processing = MatchingPaths(all_files)

\* C13 witness: a listing whose first entry is not even a dict and whose
\* second entry matches has been scanned: the first was reported and
\* skipped, the second is the result.
C13_Witness ==
    /\ l_pc = "returned"
    /\ Len(all_files) = 2
    /\ ~all_files[1].isDict
    /\ Matching(all_files[2])
    /\ l_printed = 1
    /\ files_for_processing = <<all_files[2].path>>

(***************************************************************************)
(* Properties of the scaler's tasks and scheduler.                         *)
(***************************************************************************)
\* C14 - scratch-file uniqueness: two tasks that run at the same time never
\* use the same local file: their input files in WORKDIR differ and the
\* output names they have generated differ.
C14_ScratchUnique ==
    \A t, u \in ThreadIds :
        (t # u /\ Running(t) /\ Running(u)) =>
            /\ threads[t].item # threads[u].item
            /\ threads[t].out # 0 => threads[t].out # threads[u].out

\* The main thread is inside a cycle: between the listing and the sleep.
InCycle == mpc \in {"for", "start", "join_batch", "join_final"}

\* The step by which thread t dies leaves the main thread and every other
\* thread as they are.
DiesAlone(t) ==
    (threads[t].pc # "failed" /\ t \in DOMAIN threads' /\ threads'[t].pc = "failed")
        => /\ UNCHANGED mainVars
           /\ Len(threads') = Len(threads)
           /\ \A u \in ThreadIds \ {t} : threads'[u] = threads[u]

InWrappedCall(t) == threads[t].pc \in {"download", "upload", "delete"}

\* The step of a thread asleep in the decorator: it stays asleep, or it
\* wakes up in the same call of the same task.
RetriesSameCall(t) ==
    threads[t].w = "sleeping" =>
        /\ t \in DOMAIN threads'
        /\ threads'[t].item = threads[t].item
        /\ threads'[t].pc = threads[t].pc
        /\ threads'[t].w \in {"sleeping", "call"}

\* C18 - unbounded retry blocks the pipeline: a wrapped call whose
\* invocations end in connection failures is invoked again without limit
\* (at each invocation the failure, the sleep and the next invocation are
\* possible, and the sleep leads nowhere else); and as long as its task has
\* not terminated the main thread stays inside the cycle: it starts no
\* task of a later batch and reaches neither the sleep nor the next poll.
C18_UnboundedRetryBlocks ==
    /\ [](\A t \in ThreadIds :
            (InWrappedCall(t) /\ threads[t].w = "call") =>
                ENABLED (\E o \in {"NoConnection", "ConnectionException"} :
                            Download(t, o) \/ Upload(t, o) \/ Delete(t, o)))
    /\ [](\A t \in ThreadIds : threads[t].w = "sleeping" => ENABLED Backoff(t))
    /\ [][\A t \in ThreadIds : RetriesSameCall(t)]_vars
    /\ [](\A t \in ThreadIds :
            Running(t) =>
                /\ InCycle
                /\ \A u \in ThreadIds :
                      BatchOf(threads[u].idx) <= BatchOf(threads[t].idx)
                /\ mpc = "start" => BatchOf(pos) = BatchOf(threads[t].idx))

\* C18 witness: a task is asleep in the decorator, its sibling has
\* terminated, items of the listing are still to be started, and the main
\* thread waits in the join of the batch.
C18_Witness ==
    /\ mpc = "join_batch"
    /\ pos <= Len(objects)
    /\ \E t \in ThreadIds :
          /\ threads[t].w = "sleeping"
          /\ \A u \in ThreadIds \ {t} : Terminated(u)

C20_NoConcurrentWorkOnItem ==
    /\ \A t, u \in ThreadIds :
          (t # u /\ Running(t) /\ Running(u)) =>
              /\ threads[t].item # threads[u].item
              /\ BatchOf(threads[t].idx) = BatchOf(threads[u].idx)
    /\ \A t \in ThreadIds :
          Running(t) =>
              /\ InCycle
              /\ threads[t].idx <= Len(objects)
              /\ objects[threads[t].idx] = threads[t].item

\* C20 witness: two tasks of one batch are both at the delete of their
\* remote source, each of its own item.
C20_Witness ==
    \E t, u \in ThreadIds :
        /\ t # u
        /\ threads[t].pc = "delete" /\ threads[u].pc = "delete"
        /\ threads[t].item # threads[u].item
        /\ {threads[t].item, threads[u].item} \subseteq rawRemote

====
